---- MODULE Spec2Model ----
(***************************************************************************)
(* PaperSearch: the paginated Scopus search (ScopusClient.search_all), the *)
(* fetch layer above it (PaperFetcher), the query builder (QueryBuilder)   *)
(* and the PDF download batch (PDFDownloader, download_papers.py main).    *)
(*                                                                         *)
(* Strings the program composes or inspects are sequences of one-character *)
(* strings; strings it only passes along are TLA+ strings.                 *)
(***************************************************************************)
EXTENDS Integers, Sequences, FiniteSets, TLC

VARIABLES
    \* ---- ScopusClient.search_all / PaperFetcher ----
    provider,       \* the pages the search API serves, one per request, in order
    served,         \* number of requests the API has answered
    entry,          \* the public method in progress: search_all, fetch_papers, fetch_by_topic
    s_pc,           \* position inside search_all
    query,          \* search_all's query argument
    total_count,    \* search_all's total_count argument
    all_results,    \* search_all's local all_results
    start,          \* search_all's local start
    requests,       \* the GET requests issued by search, in order
    received,       \* the entries of the pages received by this call, concatenated
    pagelog,        \* the pages received by this call
    ret,            \* the value returned to the caller
    exc,            \* the exception that left the call, if any
    \* ---- QueryBuilder ----
    builder,        \* the QueryBuilder's fields
    q_ret,          \* what the last QueryBuilder call returned: <<string>> for build(), <<>> for self
    last_raw,       \* the argument of the last set_raw_query call, <<>> if none
    \* ---- PaperFetcher ----
    save,           \* fetch_papers' save argument
    data_dir,       \* the snapshot files in data_dir: file name -> content
    clock,          \* the wall clock, in whole seconds
    topic_ret,      \* what fetch_by_topic returned: <<>> or <<query, papers>>
    \* ---- PDFDownloader / download_papers.py ----
    files,          \* the files in download_dir: path -> size
    d_entry,        \* the entry point in progress: download_papers, main
    d_pc,           \* position inside download_papers / main
    papers,         \* download_papers' papers argument
    delay,          \* download_papers' delay argument
    progress_callback,  \* whether download_papers was given a progress callback
    idx,            \* download_papers' loop index i
    results,        \* download_papers' results
    events,         \* attempts, progress callbacks and sleeps of the batch, in order
    progress_calls, \* the arguments of the progress callback's calls, in order
    fs_log,         \* the files as they were before each attempt
    net_log,        \* the network requests of each attempt
    selected,       \* main's papers_with_doi
    confirmed,      \* main: the user confirmed the download
    exit_code,      \* main: the process exit status, <<>> while running
    d_exc,          \* the exception that left download_papers or main, if any
    \* ---- functions called on their own ----
    p_call,         \* the function called last and its arguments
    p_ret           \* what that call returned

svars == <<provider, served, entry, s_pc, query, total_count, all_results,
           start, requests, received, pagelog, ret, exc>>

qvars == <<builder, q_ret, last_raw>>

fvars == <<save, data_dir, clock, topic_ret>>

dvars == <<files, d_entry, d_pc, papers, delay, progress_callback, idx, results, events,
           progress_calls, fs_log, net_log, selected, confirmed, exit_code, d_exc>>

pvars == <<p_call, p_ret>>

vars == <<svars, qvars, fvars, dvars, pvars>>

\* What the actions of one component leave alone.
SearchFrame == UNCHANGED <<qvars, fvars, dvars, pvars>>

QueryFrame == UNCHANGED <<svars, fvars, dvars, pvars>>

FetchFrame == UNCHANGED <<qvars, dvars, pvars>>

DownloadFrame == UNCHANGED <<svars, qvars, fvars, pvars>>

FunctionFrame == UNCHANGED <<svars, qvars, fvars, dvars>>

\* ------------------------------------------------------------------ bounds

MaxPages == 3

MaxFacetLen == 2

MaxClock == 1

MaxBatch == 2

\* ------------------------------------------------------------------ helpers

None == "None"

Min(a, b) == IF a < b THEN a ELSE b

Max(a, b) == IF a > b THEN a ELSE b

\* Python's s[:n], negative n included.
PySlicePrefix(s, n) ==
    IF n >= 0 THEN SubSeq(s, 1, Min(n, Len(s)))
    ELSE SubSeq(s, 1, Max(Len(s) + n, 0))

IsPrefix(s, t) == Len(s) <= Len(t) /\ SubSeq(t, 1, Len(s)) = s

RECURSIVE SumSizes(_)
SumSizes(pages) ==
    IF pages = <<>> THEN 0 ELSE pages[1].n + SumSizes(Tail(pages))

\* ------------------------------------------------------------------ strings

\* Optional[...] values: <<>> is None, <<v>> is the value v.
Some(v) == <<v>>

Quote == "\""

S_TitleAbsKey == <<"T", "I", "T", "L", "E", "-", "A", "B", "S", "-", "K", "E", "Y", "(", Quote>>

S_Title == <<"T", "I", "T", "L", "E", "(", Quote>>

S_Auth == <<"A", "U", "T", "H", "(", Quote>>

S_SubjArea == <<"S", "U", "B", "J", "A", "R", "E", "A", "(">>

S_QuoteClose == <<Quote, ")">>

S_Close == <<")">>

S_Open == <<"(">>

S_And == <<" ", "A", "N", "D", " ">>

S_Or == <<" ", "O", "R", " ">>

S_AndPubyearGt == <<" ", "A", "N", "D", " ", "P", "U", "B", "Y", "E", "A", "R", " ", ">", " ">>

S_AndPubyearLt == <<" ", "A", "N", "D", " ", "P", "U", "B", "Y", "E", "A", "R", " ", "<", " ">>

S_AndNotTitleAbsKey == <<" ", "A", "N", "D", " ", "N", "O", "T", " ", "T", "I", "T", "L", "E", "-", "A", "B", "S", "-", "K", "E", "Y", "(", Quote>>

DigitChars == <<"0", "1", "2", "3", "4", "5", "6", "7", "8", "9">>

\* str(n) for an integer n, as an f-string formats it.
RECURSIVE NatStr(_)
NatStr(n) == IF n < 10 THEN <<DigitChars[n + 1]>>
             ELSE NatStr(n \div 10) \o <<DigitChars[(n % 10) + 1]>>

IntStr(n) == IF n < 0 THEN <<"-">> \o NatStr(-n) ELSE NatStr(n)

\* sep.join(parts)
RECURSIVE Join(_, _)
Join(sep, parts) ==
    IF parts = <<>> THEN <<>>
    ELSE IF Len(parts) = 1 THEN parts[1]
    ELSE parts[1] \o sep \o Join(sep, Tail(parts))

IsSpace(c) == c \in {" ", "\t", "\n", "\r"}

RECURSIVE LStrip(_)
LStrip(s) == IF s # <<>> /\ IsSpace(s[1]) THEN LStrip(Tail(s)) ELSE s

RECURSIVE RStrip(_)
RStrip(s) == IF s # <<>> /\ IsSpace(s[Len(s)]) THEN RStrip(SubSeq(s, 1, Len(s) - 1)) ELSE s

\* str.strip()
Strip(s) == RStrip(LStrip(s))

Contains(s, sub) ==
    \E i \in 1..(Len(s) - Len(sub) + 1) : SubSeq(s, i, i + Len(sub) - 1) = sub

\* ------------------------------------------------------------------ QueryBuilder

EmptyBuilder ==
    [terms |-> <<>>, exclude_terms |-> <<>>, title_terms |-> <<>>, authors |-> <<>>,
     year_from |-> <<>>, year_to |-> <<>>, subject_areas |-> <<>>, raw_query |-> <<>>]

add_term(b, term) == [b EXCEPT !.terms = Append(@, term)]

add_terms(b, ts) == [b EXCEPT !.terms = @ \o ts]

exclude_term(b, term) == [b EXCEPT !.exclude_terms = Append(@, term)]

add_title_term(b, term) == [b EXCEPT !.title_terms = Append(@, term)]

add_author(b, author) == [b EXCEPT !.authors = Append(@, author)]

set_year_range(b, yf, yt) == [b EXCEPT !.year_from = yf, !.year_to = yt]

add_subject_area(b, area) == [b EXCEPT !.subject_areas = Append(@, area)]

set_raw_query(b, q) == [b EXCEPT !.raw_query = Some(q)]

\* Python truth of an Optional[int] and of an Optional[str]: None, 0 and "" are false.
TruthyInt(o) == o # <<>> /\ o[1] # 0

TruthyStr_NoneOnly(o) == o # <<>>

TruthyStr(o) == o # <<>> /\ o[1] # <<>>

\* f'TITLE-ABS-KEY("{t}")' and the like, for each element of a list
WrapEach(open, items, close) == [i \in 1..Len(items) |-> open \o items[i] \o close]

Group(sep, queries) == S_Open \o Join(sep, queries) \o S_Close

\* parts, in the order build() appends them
BuildParts_AuthorsFirst(b) ==
    (IF b.authors # <<>>
        THEN <<Group(S_Or, WrapEach(S_Auth, b.authors, S_QuoteClose))>> ELSE <<>>)
    \o (IF b.terms # <<>>
        THEN <<Group(S_And, WrapEach(S_TitleAbsKey, b.terms, S_QuoteClose))>> ELSE <<>>)
    \o (IF b.title_terms # <<>>
        THEN <<Group(S_And, WrapEach(S_Title, b.title_terms, S_QuoteClose))>> ELSE <<>>)
    \o (IF b.subject_areas # <<>>
        THEN <<Group(S_Or, WrapEach(S_SubjArea, b.subject_areas, S_Close))>> ELSE <<>>)

BuildParts(b) ==
    (IF b.terms # <<>>
        THEN <<Group(S_And, WrapEach(S_TitleAbsKey, b.terms, S_QuoteClose))>> ELSE <<>>)
    \o (IF b.title_terms # <<>>
        THEN <<Group(S_And, WrapEach(S_Title, b.title_terms, S_QuoteClose))>> ELSE <<>>)
    \o (IF b.authors # <<>>
        THEN <<Group(S_Or, WrapEach(S_Auth, b.authors, S_QuoteClose))>> ELSE <<>>)
    \o (IF b.subject_areas # <<>>
        THEN <<Group(S_Or, WrapEach(S_SubjArea, b.subject_areas, S_Close))>> ELSE <<>>)

\* the year range build() appends
BuildYears(b) ==
    IF TruthyInt(b.year_from) /\ TruthyInt(b.year_to)
    THEN S_AndPubyearGt \o IntStr(b.year_from[1] - 1)
         \o S_AndPubyearLt \o IntStr(b.year_to[1] + 1)
    ELSE IF TruthyInt(b.year_from)
    THEN S_AndPubyearGt \o IntStr(b.year_from[1] - 1)
    ELSE IF TruthyInt(b.year_to)
    THEN S_AndPubyearLt \o IntStr(b.year_to[1] + 1)
    ELSE <<>>

\* the exclusions build() appends
RECURSIVE BuildExclusions(_)
BuildExclusions(ex) ==
    IF ex = <<>> THEN <<>>
    ELSE S_AndNotTitleAbsKey \o ex[1] \o S_QuoteClose \o BuildExclusions(Tail(ex))

build(b) ==
    IF TruthyStr(b.raw_query) THEN b.raw_query[1]
    ELSE Strip(Join(S_And, BuildParts(b)) \o BuildYears(b) \o BuildExclusions(b.exclude_terms))

\* The arguments the callers pass.
FreeTerms == { <<"x">> }

ExcludeTerms == { <<"x">>, <<"y">> }

TitleTerms == { <<"t">> }

Authors == { <<"a">> }

SubjectAreas == { <<"C", "O", "M", "P">> }

Years == {0, 2020}

OptYears == {<<>>} \cup {Some(y) : y \in Years}

RawQueries == { <<>>, <<"q">>, <<" ", "q", " ">> }

SeqsUpTo(S, n) == UNION { [1..k -> S] : k \in 0..n }

CallAddTerm ==
    /\ Len(builder.terms) < MaxFacetLen
    /\ \E t \in FreeTerms : builder' = add_term(builder, t)
    /\ q_ret' = <<>>
    /\ UNCHANGED last_raw
    /\ QueryFrame

CallAddTerms ==
    /\ \E ts \in SeqsUpTo(FreeTerms, MaxFacetLen - Len(builder.terms)) :
          builder' = add_terms(builder, ts)
    /\ q_ret' = <<>>
    /\ UNCHANGED last_raw
    /\ QueryFrame

CallExcludeTerm ==
    /\ Len(builder.exclude_terms) < MaxFacetLen
    /\ \E t \in ExcludeTerms : builder' = exclude_term(builder, t)
    /\ q_ret' = <<>>
    /\ UNCHANGED last_raw
    /\ QueryFrame

CallAddTitleTerm ==
    /\ Len(builder.title_terms) < MaxFacetLen
    /\ \E t \in TitleTerms : builder' = add_title_term(builder, t)
    /\ q_ret' = <<>>
    /\ UNCHANGED last_raw
    /\ QueryFrame

CallAddAuthor ==
    /\ Len(builder.authors) < MaxFacetLen
    /\ \E a \in Authors : builder' = add_author(builder, a)
    /\ q_ret' = <<>>
    /\ UNCHANGED last_raw
    /\ QueryFrame

CallSetYearRange ==
    /\ \E yf \in OptYears, yt \in OptYears : builder' = set_year_range(builder, yf, yt)
    /\ q_ret' = <<>>
    /\ UNCHANGED last_raw
    /\ QueryFrame

CallAddSubjectArea ==
    /\ Len(builder.subject_areas) < MaxFacetLen
    /\ \E a \in SubjectAreas : builder' = add_subject_area(builder, a)
    /\ q_ret' = <<>>
    /\ UNCHANGED last_raw
    /\ QueryFrame

CallSetRawQuery ==
    /\ \E q \in RawQueries :
          /\ builder' = set_raw_query(builder, q)
          /\ last_raw' = Some(q)
    /\ q_ret' = <<>>
    /\ QueryFrame

CallBuild ==
    /\ q_ret' = Some(build(builder))
    /\ UNCHANGED <<builder, last_raw>>
    /\ QueryFrame

QueryIdle ==
    /\ builder = EmptyBuilder
    /\ q_ret = <<>>
    /\ last_raw = <<>>

SearchIdle ==
    /\ provider = <<>>
    /\ served = 0
    /\ entry = None
    /\ s_pc = "idle"
    /\ query = <<>>
    /\ total_count = 0
    /\ all_results = <<>>
    /\ start = 0
    /\ requests = <<>>
    /\ received = <<>>
    /\ pagelog = <<>>
    /\ ret = <<>>
    /\ exc = None

FetchIdle ==
    /\ save = FALSE
    /\ data_dir = <<>>
    /\ clock = 0
    /\ topic_ret = <<>>

DownloadIdle ==
    /\ d_entry = None
    /\ d_pc = "idle"
    /\ papers = <<>>
    /\ delay = 0
    /\ progress_callback = FALSE
    /\ idx = 0
    /\ results = <<>>
    /\ events = <<>>
    /\ progress_calls = <<>>
    /\ fs_log = <<>>
    /\ net_log = <<>>
    /\ selected = <<>>
    /\ confirmed = FALSE
    /\ exit_code = <<>>
    /\ d_exc = None

NoCall == [fn |-> "none"]

FunctionIdle ==
    /\ p_call = NoCall
    /\ p_ret = <<>>

QueryInit ==
    QueryIdle /\ SearchIdle /\ FetchIdle /\ DownloadIdle /\ files = <<>> /\ FunctionIdle

QueryNext ==
    \/ CallAddTerm
    \/ CallAddTerms
    \/ CallExcludeTerm
    \/ CallAddTitleTerm
    \/ CallAddAuthor
    \/ CallSetYearRange
    \/ CallAddSubjectArea
    \/ CallSetRawQuery
    \/ CallBuild

QuerySpec == QueryInit /\ [][QueryNext]_vars

\* ------------------------------------------------------------------ QueryBuilder: claims

S_Pubyear == <<"P", "U", "B", "Y", "E", "A", "R">>

S_PubyearGt == <<"P", "U", "B", "Y", "E", "A", "R", " ", ">", " ">>

S_PubyearLt == <<"P", "U", "B", "Y", "E", "A", "R", " ", "<", " ">>

S_AndSep == <<" ", "A", "N", "D", " ">>

\* C9: once set_raw_query(s) has been called, build() returns exactly s, whatever
\* other mutators were called before or after it.
C9_RawQueryVerbatim ==
    (q_ret # <<>> /\ last_raw # <<>>) => q_ret[1] = last_raw[1]

\* C10: with no raw override, build() carries the clause PUBYEAR > lo-1 AND
\* PUBYEAR < hi+1 when both bounds are set, only the lower clause when only the
\* lower bound is set, only the upper clause when only the upper bound is set, and
\* no PUBYEAR clause when neither is set.
C10_YearClause ==
    (q_ret # <<>> /\ builder.raw_query = <<>>) =>
        LET r == q_ret[1]
            yf == builder.year_from
            yt == builder.year_to
        IN  /\ (yf # <<>> /\ yt # <<>>) =>
                  Contains(r, S_PubyearGt \o IntStr(yf[1] - 1) \o S_AndSep
                              \o S_PubyearLt \o IntStr(yt[1] + 1))
            /\ (yf # <<>> /\ yt = <<>>) =>
                  Contains(r, S_PubyearGt \o IntStr(yf[1] - 1)) /\ ~Contains(r, S_PubyearLt)
            /\ (yf = <<>> /\ yt # <<>>) =>
                  Contains(r, S_PubyearLt \o IntStr(yt[1] + 1)) /\ ~Contains(r, S_PubyearGt)
            /\ (yf = <<>> /\ yt = <<>>) => ~Contains(r, S_Pubyear)

\* The facet categories in the order of the query: their items, how an item is
\* written, and the operator between the items of a group.
FacetTable(b) ==
    << [items |-> b.terms,         open |-> S_TitleAbsKey, close |-> S_QuoteClose, sep |-> S_And],
       [items |-> b.title_terms,   open |-> S_Title,       close |-> S_QuoteClose, sep |-> S_And],
       [items |-> b.authors,       open |-> S_Auth,        close |-> S_QuoteClose, sep |-> S_Or],
       [items |-> b.subject_areas, open |-> S_SubjArea,    close |-> S_Close,      sep |-> S_Or] >>

RECURSIVE ExpectedGroups(_)
ExpectedGroups(tab) ==
    IF tab = <<>> THEN <<>>
    ELSE LET f == tab[1]
             written == [i \in 1..Len(f.items) |-> f.open \o f.items[i] \o f.close]
         IN  (IF Len(f.items) > 0 THEN << S_Open \o Join(f.sep, written) \o S_Close >> ELSE <<>>)
             \o ExpectedGroups(Tail(tab))

ExpectedExclusions(ex) ==
    Join(<<>>, [i \in 1..Len(ex) |-> S_AndNotTitleAbsKey \o ex[i] \o S_QuoteClose])

\* The year clauses a query can carry: none, a lower one, an upper one, or both.
YearClauses ==
    {<<>>}
    \cup { S_AndPubyearGt \o IntStr(lo - 1) : lo \in Years }
    \cup { S_AndPubyearLt \o IntStr(hi + 1) : hi \in Years }
    \cup { S_AndPubyearGt \o IntStr(lo - 1) \o S_AndPubyearLt \o IntStr(hi + 1) :
             lo \in Years, hi \in Years }

\* C11: with no raw override, build() returns one parenthesized group per non-empty
\* facet category in the order free terms, title terms, authors, subject areas,
\* joined by AND, then the year clause, then one AND NOT TITLE-ABS-KEY("t") per
\* excluded term in insertion order (without the leading blank when no group
\* comes first).
C11_FixedOrder ==
    (q_ret # <<>> /\ builder.raw_query = <<>>) =>
        \E y \in YearClauses :
            LET e == Join(S_And, ExpectedGroups(FacetTable(builder))) \o y
                     \o ExpectedExclusions(builder.exclude_terms)
            IN  q_ret[1] = IF e # <<>> /\ e[1] = " " THEN Tail(e) ELSE e

\* C11 witness: a build over all four categories, a year range and two exclusions
\* inserted in the order y, x.
C11_Witness ==
    /\ q_ret # <<>>
    /\ builder.raw_query = <<>>
    /\ builder.terms # <<>> /\ builder.title_terms # <<>>
    /\ builder.authors # <<>> /\ builder.subject_areas # <<>>
    /\ builder.year_from = Some(2020)
    /\ builder.exclude_terms = << <<"y">>, <<"x">> >>

\* A boolean operator with nothing before it: "AND " opens the string ("AND NOT "
\* included).
DanglingOperator(q) == IsPrefix(<<"A", "N", "D", " ">>, q)

\* C23: with no raw override, build() returns the empty string or a string that
\* begins with a parenthesized group or a clause, never with AND or AND NOT, also
\* when only a year range or exclusions are set.
C23_NoDanglingOperator ==
    (q_ret # <<>> /\ builder.raw_query = <<>>) =>
        /\ ~DanglingOperator(q_ret[1])
        /\ q_ret[1] = <<>> \/ q_ret[1][1] \in {"(", "P"}

\* ------------------------------------------------------------------ the search API

\* The per-page maximum of the Scopus search API.
PageLimit == 25

\* The arguments the callers pass as total_count.
TotalCounts == {0, 1, 26, 100}

\* What a response carries: its number of entries and its opensearch:totalResults
\* ("missing": the key is absent; "garbage": not a decimal integer), or a
\* non-2xx status / timeout instead of a body.
PageSizes == {0, 10, 25}

Missing == [is |-> "missing", val |-> 0]

Garbage == [is |-> "garbage", val |-> 0]

Num(v) == [is |-> "int", val |-> v]

ReportedTotals == {Missing, Garbage, Num(35), Num(1000)}

EmptyPage == [kind |-> "ok", n |-> 0, total |-> Missing]

Pages ==
    { EmptyPage, [kind |-> "ok", n |-> 0, total |-> Num(1000)] }
    \cup { [kind |-> "ok", n |-> k, total |-> t] : k \in PageSizes \ {0}, t \in ReportedTotals }
    \cup { [kind |-> "http_error", n |-> 0, total |-> Missing] }

Scripts == UNION { [1..k -> Pages] : k \in 0..MaxPages }

\* The page served to the i-th request: the script's, and empty pages after it.
PageOf(i) == IF i <= Len(provider) THEN provider[i] ELSE EmptyPage

\* The entries of the i-th response: result["search-results"]["entry"].
Entries(i, n) == [k \in 1..n |-> <<i, k>>]

Queries == { <<"q">> }

\* ------------------------------------------------------------------ ScopusClient

\* search(): params["count"] = min(count, 25)
SearchParams_Unclamped(q, count, st) ==
    [query |-> q, count |-> count, start |-> st]

SearchParams(q, count, st) ==
    [query |-> q, count |-> Min(count, PageLimit), start |-> st]

\* int(result.get("search-results", {}).get("opensearch:totalResults", 0))
TotalAvailable(total) == IF total.is = "missing" THEN 0 ELSE total.val

\* The value search_all returns: all_results[:total_count]
SearchAllResult_NoTruncate == all_results

SearchAllResult == PySlicePrefix(all_results, total_count)

\* if start >= total_available: break
TotalReached_Never(st, total) == FALSE

TotalReached_Always(st, total) == TRUE

TotalReached(st, total) == st >= TotalAvailable(total)

\* if not entries: break
NoEntries_Never(entries) == FALSE

NoEntries(entries) == entries = <<>>

\* while len(all_results) < total_count
LoopCondition == Len(all_results) < total_count

SearchAllBody(q, tc) ==
    /\ query' = q
    /\ total_count' = tc
    /\ all_results' = <<>>
    /\ start' = 0
    /\ requests' = <<>>
    /\ received' = <<>>
    /\ pagelog' = <<>>
    /\ ret' = <<>>
    /\ exc' = None
    /\ s_pc' = "loop"

\* A caller calls search_all(query, total_count).
CallSearchAll ==
    /\ s_pc = "idle"
    /\ \E q \in Queries, tc \in TotalCounts : SearchAllBody(q, tc)
    /\ entry' = "search_all"
    /\ UNCHANGED <<provider, served>>
    /\ SearchFrame

\* One pass of the loop up to the GET: remaining, count, self.search(...).
SearchAllRequest ==
    /\ s_pc = "loop"
    /\ LoopCondition
    /\ LET remaining == total_count - Len(all_results)
           count == Min(PageLimit, remaining)
       IN  requests' = Append(requests, SearchParams(query, count, start))
    /\ s_pc' = "await"
    /\ UNCHANGED <<provider, served, entry, query, total_count, all_results,
                   start, received, pagelog, ret, exc>>
    /\ SearchFrame

\* requests.get raises on a timeout and response.raise_for_status() on a non-2xx
\* status; search has no handler.
TransportErrors == {"http_error", "timeout"}

Raises_Swallowed(page) == FALSE

Raises(page) == page.kind \in TransportErrors

TransportException(page) == IF page.kind = "timeout" THEN "Timeout" ELSE "HTTPError"

\* The response arrives: raise_for_status, then the rest of the loop body.
SearchResponse ==
    /\ s_pc = "await"
    /\ entry # "search"
    /\ LET page == PageOf(served + 1)
           entries == Entries(served + 1, page.n)
       IN  /\ served' = served + 1
           /\ pagelog' = Append(pagelog, page)
           /\ IF Raises(page)
              THEN /\ s_pc' = "raised"
                   /\ exc' = TransportException(page)
                   /\ UNCHANGED <<all_results, start, received>>
              ELSE /\ received' = received \o entries
                   /\ IF NoEntries(entries)
                      THEN /\ s_pc' = "exit"
                           /\ UNCHANGED <<all_results, start, exc>>
                      ELSE /\ all_results' = all_results \o entries
                           /\ start' = start + Len(entries)
                           /\ IF page.total.is = "garbage"
                              THEN s_pc' = "raised" /\ exc' = "ValueError"
                              ELSE /\ exc' = exc
                                   /\ s_pc' = IF TotalReached(start', page.total)
                                              THEN "exit" ELSE "loop"
    /\ UNCHANGED <<provider, entry, query, total_count, requests, ret>>
    /\ SearchFrame

\* The loop has ended (condition false, or break): return all_results[:total_count].
SearchAllDone == s_pc = "exit" \/ (s_pc = "loop" /\ ~LoopCondition)

SearchAllReturn ==
    /\ entry = "search_all"
    /\ SearchAllDone
    /\ ret' = SearchAllResult
    /\ s_pc' = "returned"
    /\ UNCHANGED <<provider, served, entry, query, total_count, all_results,
                   start, requests, received, pagelog, exc>>
    /\ SearchFrame

\* The arguments the callers pass to search.
SearchCounts == {1, 25, 100}

SearchStarts == {0, 25}

\* A caller calls search(query, count, start): the GET is issued.
CallSearch ==
    /\ s_pc = "idle"
    /\ \E q \in Queries, count \in SearchCounts, st \in SearchStarts :
          /\ query' = q
          /\ requests' = <<SearchParams(q, count, st)>>
          /\ p_call' = [fn |-> "search", count |-> count, start |-> st]
    /\ entry' = "search"
    /\ s_pc' = "await"
    /\ received' = <<>>
    /\ pagelog' = <<>>
    /\ ret' = <<>>
    /\ exc' = None
    /\ UNCHANGED <<provider, served, total_count, all_results, start, p_ret>>
    /\ UNCHANGED <<qvars, fvars, dvars>>

\* The response to search's GET arrives: raise_for_status(), return response.json().
SearchReturn ==
    /\ s_pc = "await"
    /\ entry = "search"
    /\ LET page == PageOf(served + 1)
       IN  /\ served' = served + 1
           /\ pagelog' = Append(pagelog, page)
           /\ IF Raises(page)
              THEN /\ s_pc' = "raised"
                   /\ exc' = TransportException(page)
                   /\ UNCHANGED <<ret, received>>
              ELSE /\ s_pc' = "returned"
                   /\ ret' = Entries(served + 1, page.n)
                   /\ received' = Entries(served + 1, page.n)
                   /\ UNCHANGED exc
    /\ UNCHANGED <<provider, entry, query, total_count, all_results, start, requests>>
    /\ SearchFrame

SearchInit ==
    /\ provider \in Scripts
    /\ served = 0
    /\ entry = None
    /\ s_pc = "idle"
    /\ query = <<>>
    /\ total_count = 0
    /\ all_results = <<>>
    /\ start = 0
    /\ requests = <<>>
    /\ received = <<>>
    /\ pagelog = <<>>
    /\ ret = <<>>
    /\ exc = None
    /\ QueryIdle
    /\ FetchIdle
    /\ DownloadIdle
    /\ FunctionIdle
    /\ files = <<>>

SearchNext ==
    \/ CallSearch
    \/ SearchReturn
    \/ CallSearchAll
    \/ SearchAllRequest
    \/ SearchResponse
    \/ SearchAllReturn

SearchSpec == SearchInit /\ [][SearchNext]_vars

\* The calls are sequential and blocking: a call that can take a step takes it.
FairSearchSpec == SearchSpec /\ WF_vars(SearchNext)

\* ------------------------------------------------------------------ build_query_from_topic

RECURSIVE ExcludeAll(_, _)
ExcludeAll(b, ex) == IF ex = <<>> THEN b ELSE ExcludeAll(exclude_term(b, ex[1]), Tail(ex))

RECURSIVE AddAreas(_, _)
AddAreas(b, areas) == IF areas = <<>> THEN b ELSE AddAreas(add_subject_area(b, areas[1]), Tail(areas))

\* Python truth of an Optional[list]: None and [] are false.
TruthyList(o) == o # <<>> /\ o[1] # <<>>

build_query_from_topic(topic, additional_terms, exclude, year_from, year_to, subject_areas) ==
    LET b1 == add_term(EmptyBuilder, topic)
        b2 == IF TruthyList(additional_terms) THEN add_terms(b1, additional_terms[1]) ELSE b1
        b3 == IF TruthyList(exclude) THEN ExcludeAll(b2, exclude[1]) ELSE b2
        b4 == IF TruthyInt(year_from) \/ TruthyInt(year_to)
              THEN set_year_range(b3, year_from, year_to) ELSE b3
        b5 == IF TruthyList(subject_areas) THEN AddAreas(b4, subject_areas[1]) ELSE b4
    IN  build(b5)

\* The parameters build_query_from_topic declares.
BuildQueryFromTopicParams ==
    {"topic", "additional_terms", "exclude", "year_from", "year_to", "subject_areas"}

\* ------------------------------------------------------------------ PaperFetcher

\* Paper.from_scopus_entry(entry)
FromScopusEntry(e) == [scopus_id |-> e]

PapersOf(entries) == [i \in 1..Len(entries) |-> FromScopusEntry(entries[i])]

\* f"papers_{timestamp}.json", timestamp = now to the second
SnapshotName(now) == <<"papers_", now, ".json">>

\* open(filepath, "w") and json.dump: the file is created or replaced.
WriteFile(dir, name, content) ==
    [f \in (DOMAIN dir) \cup {name} |-> IF f = name THEN content ELSE dir[f]]

\* _save_papers(papers, query)
SavePapers(dir, ps, q, now) ==
    WriteFile(dir, SnapshotName(now),
              [query |-> q, fetched_at |-> now, count |-> Len(ps), papers |-> ps])

\* The arguments the callers pass to fetch_papers and fetch_by_topic.
FetchCounts == {0, 12}

Topics == { <<"x">> }

OptTermLists == { <<>>, Some(<<>>), Some(<< <<"y">> >>) }

\* The keywords fetch_by_topic passes to build_query_from_topic.
FetchByTopicKeywords ==
    {"topic", "additional_terms", "additional_terms_or", "exclude", "year_from", "year_to"}

\* A Python call binds its keywords to declared parameters; any other keyword is a TypeError.
CallBinds(keywords, params) == keywords \subseteq params

CallReady == s_pc \in {"idle", "returned", "raised"} /\ served < Len(provider)

\* A caller calls fetch_papers(query, count, save): entries = search_all(query, count).
CallFetchPapers ==
    /\ CallReady
    /\ \E q \in Queries, count \in FetchCounts, sv \in BOOLEAN :
          /\ SearchAllBody(q, count)
          /\ save' = sv
    /\ entry' = "fetch_papers"
    /\ topic_ret' = <<>>
    /\ UNCHANGED <<provider, served, data_dir, clock>>
    /\ FetchFrame

\* A caller calls fetch_by_topic(topic, count, additional_terms, additional_terms_or,
\* exclude, year_from, year_to, save): query = build_query_from_topic(...), then
\* fetch_papers(query, count, save).
CallFetchByTopic ==
    /\ CallReady
    /\ \E topic \in Topics, count \in FetchCounts, additional_terms \in OptTermLists,
          exclude \in OptTermLists, year_from \in OptYears, year_to \in OptYears,
          sv \in BOOLEAN :
          IF CallBinds(FetchByTopicKeywords, BuildQueryFromTopicParams)
          THEN /\ SearchAllBody(
                     build_query_from_topic(topic, additional_terms, exclude,
                                            year_from, year_to, <<>>),
                     count)
               /\ save' = sv
          ELSE /\ s_pc' = "raised"
               /\ exc' = "TypeError"
               /\ ret' = <<>>
               /\ requests' = <<>>
               /\ received' = <<>>
               /\ pagelog' = <<>>
               /\ UNCHANGED <<query, total_count, all_results, start, save>>
    /\ entry' = "fetch_by_topic"
    /\ topic_ret' = <<>>
    /\ UNCHANGED <<provider, served, data_dir, clock>>
    /\ FetchFrame

\* if save and papers
ShouldSave_IgnoresEmpty(sv, ps) == sv

ShouldSave(sv, ps) == sv /\ ps # <<>>

\* search_all has returned into fetch_papers: map the entries, save, return.
FetchPapersReturn ==
    /\ entry \in {"fetch_papers", "fetch_by_topic"}
    /\ SearchAllDone
    /\ LET fetched == PapersOf(SearchAllResult)
       IN  /\ data_dir' = IF ShouldSave(save, fetched)
                          THEN SavePapers(data_dir, fetched, query, clock)
                          ELSE data_dir
           /\ ret' = fetched
           /\ topic_ret' = IF entry = "fetch_by_topic" THEN <<query, fetched>> ELSE <<>>
    /\ s_pc' = "returned"
    /\ UNCHANGED <<provider, served, entry, query, total_count, all_results,
                   start, requests, received, pagelog, exc, save, clock>>
    /\ FetchFrame

\* Time passes.
Tick ==
    /\ clock < MaxClock
    /\ clock' = clock + 1
    /\ UNCHANGED <<save, data_dir, topic_ret>>
    /\ UNCHANGED <<svars, qvars, dvars, pvars>>

\* The pages the search API serves in the runs of the fetch layer.
FetchPages ==
    { EmptyPage,
      [kind |-> "ok", n |-> 10, total |-> Num(1000)],
      [kind |-> "http_error", n |-> 0, total |-> Missing],
      [kind |-> "timeout", n |-> 0, total |-> Missing] }

FetchInit ==
    /\ provider \in UNION { [1..k -> FetchPages] : k \in 0..MaxPages }
    /\ served = 0
    /\ entry = None
    /\ s_pc = "idle"
    /\ query = <<>>
    /\ total_count = 0
    /\ all_results = <<>>
    /\ start = 0
    /\ requests = <<>>
    /\ received = <<>>
    /\ pagelog = <<>>
    /\ ret = <<>>
    /\ exc = None
    /\ QueryIdle
    /\ FetchIdle
    /\ DownloadIdle
    /\ FunctionIdle
    /\ files = <<>>

FetchNext ==
    \/ CallFetchPapers
    \/ CallFetchByTopic
    \/ SearchAllRequest
    \/ SearchResponse
    \/ FetchPapersReturn
    \/ Tick

FetchSpec == FetchInit /\ [][FetchNext]_vars

\* ------------------------------------------------------------------ PaperFetcher: claims

\* C4: fetch_by_topic does not fail before issuing the search, and returns the pair
\* (query, papers) with query the string build_query_from_topic builds from its
\* arguments and papers the result of fetch_papers on that query.
C4_FetchByTopicReturns ==
    entry = "fetch_by_topic" =>
        /\ ~(s_pc = "raised" /\ requests = <<>>)
        /\ s_pc = "returned" => topic_ret = <<query, ret>>

\* C12: every save creates a new snapshot file: a file of data_dir, once written,
\* is still there with the same content after every later save.
C12_NeverOverwritten ==
    [][\A f \in DOMAIN data_dir : f \in DOMAIN data_dir' /\ data_dir'[f] = data_dir[f]]_vars

\* C13: fetch_papers writes one snapshot file when save is true and the search
\* returned at least one entry, and leaves data_dir as it was otherwise; the
\* snapshot holds the query, count = the number of papers returned, and the papers
\* in the order search_all returned their entries.
C13_SaveFrame ==
    [][IF entry = "fetch_papers" /\ s_pc # "returned" /\ s_pc' = "returned"
       THEN IF save /\ SearchAllResult # <<>>
            THEN \E f \in DOMAIN data_dir' :
                    /\ DOMAIN data_dir' = DOMAIN data_dir \cup {f}
                    /\ \A g \in DOMAIN data_dir \ {f} : data_dir'[g] = data_dir[g]
                    /\ data_dir'[f].query = query
                    /\ data_dir'[f].count = Len(ret')
                    /\ data_dir'[f].papers = ret'
                    /\ Len(ret') = Len(SearchAllResult)
                    /\ \A i \in 1..Len(ret') : ret'[i] = FromScopusEntry(SearchAllResult[i])
            ELSE data_dir' = data_dir
       ELSE data_dir' = data_dir]_vars

\* C13 witness: a saving fetch_papers has returned twelve papers of two pages and
\* the snapshot is in data_dir.
C13_Witness ==
    /\ entry = "fetch_papers"
    /\ s_pc = "returned"
    /\ save
    /\ Len(ret) = 12
    /\ \E f \in DOMAIN data_dir : data_dir[f].papers = ret

\* C19: when page k of a search_all made by fetch_papers fails with a transport
\* error (non-2xx status or timeout), the error leaves search_all and fetch_papers:
\* request k is the last request (no retry, no further page), nothing is returned
\* (the entries of pages 1..k-1 included) and no snapshot file is written.
C19_TransportErrorPropagates ==
    [][\A k \in 1..Len(pagelog') :
          pagelog'[k].kind \in {"http_error", "timeout"} =>
              /\ k = Len(pagelog')
              /\ Len(requests') = k
              /\ s_pc' = "raised"
              /\ exc' = (IF pagelog'[k].kind = "timeout" THEN "Timeout" ELSE "HTTPError")
              /\ ret' = <<>>
              /\ topic_ret' = <<>>
              /\ data_dir' = data_dir]_vars

\* C19 witness: a saving fetch_papers got ten entries on page 1 and a timeout on
\* page 2.
C19_Witness ==
    /\ entry = "fetch_papers"
    /\ save
    /\ Len(pagelog) = 2
    /\ pagelog[1].kind = "ok" /\ pagelog[1].n = 10
    /\ pagelog[2].kind = "timeout"
    /\ s_pc = "raised"
    /\ Len(all_results) = 10
    /\ ret = <<>>
    /\ data_dir = <<>>

\* ------------------------------------------------------------------ PDFDownloader: files and names

\* re.sub(r'[<>:"/\\|?*]', '', title)
IllegalChars == {"<", ">", ":", Quote, "/", "\\", "|", "?", "*"}

AlnumChars == {"a", "b", "c", "d", "e", "f", "g", "h", "i", "j", "k", "l", "m", "n", "o", "p", "q", "r", "s", "t", "u", "v", "w", "x", "y", "z", "A", "B", "C", "D", "E", "F", "G", "H", "I", "J", "K", "L", "M", "N", "O", "P", "Q", "R", "S", "T", "U", "V", "W", "X", "Y", "Z", "0", "1", "2", "3", "4", "5", "6", "7", "8", "9"}

\* \w, '-', '_' and '.'
IsKeptChar(c) == c \in AlnumChars \cup {"_", "-", "."}

RECURSIVE RemoveChars(_, _)
RemoveChars(s, bad) ==
    IF s = <<>> THEN <<>>
    ELSE IF s[1] \in bad THEN RemoveChars(Tail(s), bad)
    ELSE <<s[1]>> \o RemoveChars(Tail(s), bad)

\* re.sub(r'\s+', '_', filename)
RECURSIVE CollapseSpaces(_)
CollapseSpaces(s) ==
    IF s = <<>> THEN <<>>
    ELSE IF IsSpace(s[1]) THEN <<"_">> \o CollapseSpaces(LStrip(s))
    ELSE <<s[1]>> \o CollapseSpaces(Tail(s))

\* re.sub(r'[^\w\-_.]', '', filename)
RECURSIVE KeepChars(_)
KeepChars(s) ==
    IF s = <<>> THEN <<>>
    ELSE IF IsKeptChar(s[1]) THEN <<s[1]>> \o KeepChars(Tail(s))
    ELSE KeepChars(Tail(s))

\* filename.strip('_')
RECURSIVE StripUnderscores(_)
StripUnderscores(s) ==
    IF s # <<>> /\ s[1] = "_" THEN StripUnderscores(Tail(s))
    ELSE IF s # <<>> /\ s[Len(s)] = "_" THEN StripUnderscores(SubSeq(s, 1, Len(s) - 1))
    ELSE s

\* sanitize_filename's default max_length
MaxFilenameLength == 100

sanitize_filename(title, max_length) ==
    LET f1 == RemoveChars(title, IllegalChars)
        f2 == CollapseSpaces(f1)
        f3 == KeepChars(f2)
        f4 == IF Len(f3) > max_length THEN SubSeq(f3, 1, max_length) ELSE f3
    IN  StripUnderscores(f4)

\* self.download_dir / f"{safe_filename}.pdf"
FilePath(safe_filename) == safe_filename \o <<".", "p", "d", "f">>

FileExists(fs, path) == path \in DOMAIN fs

\* filepath.unlink()
Unlink_Noop(fs, path) == fs

Unlink(fs, path) == [f \in (DOMAIN fs) \ {path} |-> fs[f]]

\* ------------------------------------------------------------------ PDFDownloader: Unpaywall lookup

\* An OA location of an Unpaywall record: url_for_pdf and host_type, each optional.
LocNoPdf == [url_for_pdf |-> <<>>, host_type |-> Some("publisher")]

LocPublisher == [url_for_pdf |-> Some("https://publisher/x.pdf"), host_type |-> Some("publisher")]

LocNoHost == [url_for_pdf |-> Some("https://repo/x.pdf"), host_type |-> <<>>]

\* The value under "oa_locations" in the record: the key is absent, it holds JSON
\* null, or it holds a list of locations.
KeyAbsent == [is |-> "absent", val |-> <<>>]

JsonNull == [is |-> "null", val |-> <<>>]

JsonList(locs) == [is |-> "list", val |-> locs]

\* The answers of the Unpaywall API: a status (or a transport failure) and, for a
\* 2xx answer, the JSON body: an object with best_oa_location and oa_locations,
\* or a JSON value that is not an object.
LookupResponses ==
    { [status |-> st, body |-> "none", best |-> <<>>, locations |-> KeyAbsent] :
          st \in {"404", "http_error", "timeout"} }
    \cup { [status |-> "ok", body |-> "object", best |-> b, locations |-> l] :
             b \in {<<>>, Some(LocNoPdf), Some(LocPublisher)},
             l \in {KeyAbsent, JsonNull, JsonList(<<LocNoPdf, LocNoHost>>)} }
    \cup { [status |-> "ok", body |-> "array", best |-> <<>>, locations |-> KeyAbsent] }

\* location.get("host_type", "unknown")
HostType(loc) == IF loc.host_type = <<>> THEN "unknown" ELSE loc.host_type[1]

PdfInfo(loc) == [pdf_url |-> loc.url_for_pdf[1], source |-> HostType(loc)]

\* for location in data.get("oa_locations", []): the first one with a url_for_pdf
RECURSIVE FirstWithPdf(_)
FirstWithPdf(locs) ==
    IF locs = <<>> THEN <<>>
    ELSE IF locs[1].url_for_pdf # <<>> THEN Some(PdfInfo(locs[1]))
    ELSE FirstWithPdf(Tail(locs))

Returned(value) == [exc |-> "None", value |-> value]

Thrown(e) == [exc |-> e, value |-> <<>>]

\* The try block of get_unpaywall_pdf_url: the value it returns or the exception
\* thrown in it. session.get and raise_for_status throw RequestException; data.get
\* on a body that is not an object throws AttributeError; iterating a null
\* oa_locations throws TypeError.
UnpaywallTry(resp) ==
    IF resp.status \in {"http_error", "timeout"} THEN Thrown("RequestException")
    ELSE IF resp.status = "404" THEN Returned(<<>>)
    ELSE IF resp.body # "object" THEN Thrown("AttributeError")
    ELSE IF resp.best # <<>> /\ resp.best[1].url_for_pdf # <<>>
    THEN Returned(Some(PdfInfo(resp.best[1])))
    ELSE IF resp.locations.is = "null" THEN Thrown("TypeError")
    ELSE Returned(FirstWithPdf(resp.locations.val))

\* get_unpaywall_pdf_url(doi): except requests.exceptions.RequestException returns
\* None; any other exception leaves the method.
get_unpaywall_pdf_url(resp) ==
    LET t == UnpaywallTry(resp)
    IN  IF t.exc = "RequestException" THEN Returned(<<>>) ELSE t

\* ------------------------------------------------------------------ PDFDownloader: download_pdf

\* The smallest file download_pdf keeps.
MinPdfSize == 1000

\* response.headers.get("Content-Type", "")
ContentTypes == {"application/pdf", "Application/PDF", "application/octet-stream", "text/html", ""}

\* "pdf" in content_type.lower() or "octet-stream" in content_type.lower()
PdfLikeTypes == {"application/pdf", "Application/PDF", "application/octet-stream"}

\* The answers to the GET of the PDF: a status (or a transport failure), the
\* Content-Type header, whether the body starts with %PDF, the body's length, and
\* whether the transfer breaks after the first chunk.
BodySizes == {0, 999, 1000}

DownloadResponses ==
    { [status |-> st, content_type |-> "", magic |-> FALSE, size |-> 0, breaks |-> FALSE] :
          st \in {"http_error", "timeout"} }
    \cup { r \in [status : {"ok"}, content_type : ContentTypes,
                   magic : BOOLEAN, size : BodySizes, breaks : BOOLEAN] :
               r.magic => r.size >= 4 }

\* except Exception: if filepath.exists(): filepath.unlink()
ExceptCleanup(fs, filepath) == IF FileExists(fs, filepath) THEN Unlink(fs, filepath) ELSE fs

\* download_pdf(url, filepath): the success flag and the files afterwards.  A
\* transfer that breaks has opened the file (open(filepath, "wb") creates it empty);
\* the size check runs on the file as written.
download_pdf_TrustsHeader(fs, filepath, resp) ==
    IF resp.status # "ok"
    THEN [success |-> FALSE, files |-> ExceptCleanup(fs, filepath)]
    ELSE IF resp.content_type \notin PdfLikeTypes
    THEN [success |-> FALSE, files |-> fs]
    ELSE IF resp.breaks
    THEN [success |-> FALSE, files |-> ExceptCleanup(WriteFile(fs, filepath, 0), filepath)]
    ELSE IF resp.size < MinPdfSize
    THEN [success |-> FALSE, files |-> Unlink(WriteFile(fs, filepath, resp.size), filepath)]
    ELSE [success |-> TRUE, files |-> WriteFile(fs, filepath, resp.size)]

download_pdf(fs, filepath, resp) ==
    IF resp.status # "ok"
    THEN [success |-> FALSE, files |-> ExceptCleanup(fs, filepath)]
    ELSE IF resp.content_type \notin PdfLikeTypes /\ ~resp.magic
    THEN [success |-> FALSE, files |-> fs]
    ELSE IF resp.breaks
    THEN [success |-> FALSE, files |-> ExceptCleanup(WriteFile(fs, filepath, 0), filepath)]
    ELSE IF resp.size < MinPdfSize
    THEN [success |-> FALSE, files |-> Unlink(WriteFile(fs, filepath, resp.size), filepath)]
    ELSE [success |-> TRUE, files |-> WriteFile(fs, filepath, resp.size)]

\* ------------------------------------------------------------------ PDFDownloader: download_paper

Failure(paper, error) ==
    [paper |-> paper, success |-> FALSE, filepath |-> <<>>, error |-> Some(error), source |-> <<>>]

\* DownloadResult(paper=paper, success=True, filepath=filepath, source=...)
Success_NoSource(paper, filepath, source) ==
    [paper |-> paper, success |-> TRUE, filepath |-> Some(filepath), error |-> <<>>,
     source |-> <<>>]

Success(paper, filepath, source) ==
    [paper |-> paper, success |-> TRUE, filepath |-> Some(filepath), error |-> <<>>,
     source |-> Some(source)]

Cached == <<"cached">>

\* f"unpaywall:{unpaywall_result['source']}"
UnpaywallSource(info) == <<"unpaywall:", info.source>>

\* if filepath.exists()
CacheHit_Never(fs, filepath) == FALSE

CacheHit(fs, filepath) == FileExists(fs, filepath)

\* download_paper(paper, filename) against the files fs, the Unpaywall answer
\* lookup and the PDF host's answer dl: the result, the files afterwards, the
\* network requests made, and the exception that leaves the method ("None" if none).
download_paper(fs, paper, filename, lookup, dl) ==
    IF ~TruthyStr(paper.doi)
    THEN [exc |-> "None", result |-> Failure(paper, "No DOI available"), files |-> fs, net |-> <<>>]
    ELSE
      LET safe_filename == IF TruthyStr(filename)
                           THEN sanitize_filename(filename[1], MaxFilenameLength)
                           ELSE sanitize_filename(paper.title, MaxFilenameLength)
          filepath == FilePath(safe_filename)
          unpaywall_result == get_unpaywall_pdf_url(lookup)
          got == download_pdf(fs, filepath, dl)
      IN  IF CacheHit(fs, filepath)
          THEN [exc |-> "None", result |-> Success(paper, filepath, Cached),
                files |-> fs, net |-> <<>>]
          ELSE IF unpaywall_result.exc # "None"
          THEN [exc |-> unpaywall_result.exc, result |-> Failure(paper, "raised"), files |-> fs,
                net |-> <<"unpaywall">>]
          ELSE IF unpaywall_result.value = <<>>
          THEN [exc |-> "None", result |-> Failure(paper, "PDF not available via open access"),
                files |-> fs, net |-> <<"unpaywall">>]
          ELSE IF got.success
          THEN [exc |-> "None",
                result |-> Success(paper, filepath, UnpaywallSource(unpaywall_result.value[1])),
                files |-> got.files, net |-> <<"unpaywall", "pdf">>]
          ELSE [exc |-> "None", result |-> Failure(paper, "PDF not available via open access"),
                files |-> got.files, net |-> <<"unpaywall", "pdf">>]

\* ------------------------------------------------------------------ PDFDownloader: download_papers

\* The papers of the runs: titles that sanitize to the same and to different file
\* names, with and without a DOI.
Doi == <<"1", "0", ".", "1", "/", "x">>

TitleA == <<"a">>

TitleAQ == <<"a", "?">>

TitleBC == <<"b", " ", " ", "c", "!">>

PaperSet ==
    { [title |-> t, doi |-> Some(Doi)] : t \in {TitleA, TitleAQ, TitleBC} }
    \cup { [title |-> TitleA, doi |-> <<>>], [title |-> TitleBC, doi |-> Some(<<>>)] }

Batches == SeqsUpTo(PaperSet, MaxBatch)

Delays == {0, 1}

\* The download directory when the process starts: empty, or holding a file of an
\* earlier run.
InitialFiles == { <<>>, WriteFile(<<>>, FilePath(<<"a">>), 2000) }

\* if result.source != "cached" and i < total - 1 (i is 0-based)
SleepNeeded_IgnoresCache(result, i, total) == i < total - 1

SleepNeeded(result, i, total) == result.source # Some(Cached) /\ i < total - 1

Event(ev, i, arg) == [ev |-> ev, i |-> i, arg |-> arg]

DownloadPapersBody(ps, dl, cb) ==
    /\ papers' = ps
    /\ delay' = dl
    /\ progress_callback' = cb
    /\ idx' = 0
    /\ results' = <<>>
    /\ events' = <<>>
    /\ progress_calls' = <<>>
    /\ fs_log' = <<>>
    /\ net_log' = <<>>
    /\ d_pc' = "loop"

\* A caller calls download_papers(papers, delay, progress_callback).
CallDownloadPapers ==
    /\ d_pc = "idle"
    /\ \E ps \in Batches, dl \in Delays, cb \in BOOLEAN : DownloadPapersBody(ps, dl, cb)
    /\ d_entry' = "download_papers"
    /\ UNCHANGED <<files, selected, confirmed, exit_code, d_exc>>
    /\ DownloadFrame

\* result = self.download_paper(paper); results.append(result). An exception that
\* leaves download_paper leaves download_papers: the loop has no handler.
Attempt ==
    /\ d_pc = "loop"
    /\ idx < Len(papers)
    /\ \E lookup \in LookupResponses, dl \in DownloadResponses :
          LET r == download_paper(files, papers[idx + 1], <<>>, lookup, dl)
          IN  /\ fs_log' = Append(fs_log, files)
              /\ net_log' = Append(net_log, r.net)
              /\ events' = Append(events, Event("attempt", idx + 1, 0))
              /\ files' = r.files
              /\ IF r.exc # "None"
                 THEN /\ d_pc' = "raised"
                      /\ d_exc' = r.exc
                      /\ UNCHANGED results
                 ELSE /\ d_pc' = "progress"
                      /\ results' = Append(results, r.result)
                      /\ UNCHANGED d_exc
    /\ UNCHANGED <<d_entry, papers, delay, progress_callback, idx, progress_calls,
                   selected, confirmed, exit_code>>
    /\ DownloadFrame

\* if progress_callback: progress_callback(i + 1, total, paper, result)
Progress ==
    /\ d_pc = "progress"
    /\ IF progress_callback
       THEN /\ events' = Append(events, Event("progress", idx + 1, Len(papers)))
            /\ progress_calls' = Append(progress_calls,
                                        <<idx + 1, Len(papers), papers[idx + 1], results[idx + 1]>>)
       ELSE UNCHANGED <<events, progress_calls>>
    /\ d_pc' = "ratelimit"
    /\ UNCHANGED <<files, d_entry, papers, delay, progress_callback, idx, results, fs_log,
                   net_log, selected, confirmed, exit_code, d_exc>>
    /\ DownloadFrame

\* if result.source != "cached" and i < total - 1: time.sleep(delay); next iteration
RateLimit ==
    /\ d_pc = "ratelimit"
    /\ events' = IF SleepNeeded(results[idx + 1], idx, Len(papers))
                 THEN Append(events, Event("sleep", idx + 1, delay))
                 ELSE events
    /\ idx' = idx + 1
    /\ d_pc' = "loop"
    /\ UNCHANGED <<files, d_entry, papers, delay, progress_callback, results, progress_calls,
                   fs_log, net_log, selected, confirmed, exit_code, d_exc>>
    /\ DownloadFrame

AnyFailed(rs) == \E k \in 1..Len(rs) : ~rs[k].success

\* The loop is over: return results. In main: print_summary, and sys.exit(1) if any
\* download failed, else the interpreter exits with status 0.
DownloadPapersReturn ==
    /\ d_pc = "loop"
    /\ idx = Len(papers)
    /\ IF d_entry = "main"
       THEN /\ d_pc' = "exited"
            /\ exit_code' = Some(IF AnyFailed(results) THEN 1 ELSE 0)
       ELSE /\ d_pc' = "done"
            /\ UNCHANGED exit_code
    /\ UNCHANGED <<files, d_entry, papers, delay, progress_callback, idx, results, events,
                   progress_calls, fs_log, net_log, selected, confirmed, d_exc>>
    /\ DownloadFrame

\* ------------------------------------------------------------------ download_papers.py main

RECURSIVE SortedSeq(_)
SortedSeq(S) ==
    IF S = {} THEN <<>>
    ELSE LET m == CHOOSE x \in S : \A y \in S : x <= y
         IN  <<m>> \o SortedSeq(S \ {m})

\* [x for x in xs if pred]
RECURSIVE WithDoi(_)
WithDoi(ps) ==
    IF ps = <<>> THEN <<>>
    ELSE (IF TruthyStr(ps[1].doi) THEN <<ps[1]>> ELSE <<>>) \o WithDoi(Tail(ps))

IndicesWithDoi(ps) == SortedSeq({k \in 1..Len(ps) : TruthyStr(ps[k].doi)})

SelectPapers(ps, indices) == [k \in 1..Len(indices) |-> ps[indices[k]]]

Modes == {"list_only", "all", "select", "interactive"}

Exit(code) ==
    /\ d_pc' = "exited"
    /\ exit_code' = Some(code)

\* main up to the confirmation prompt: load the snapshot, choose the papers.
MainSelect ==
    /\ d_pc = "idle"
    /\ d_entry' = "main"
    /\ \E loaded \in Batches, mode \in Modes :
       \E chosen \in SUBSET (1..Len(loaded)) :
          LET selected_indices == IF mode = "all" THEN IndicesWithDoi(loaded)
                                  ELSE SortedSeq(chosen)
              papers_with_doi == WithDoi(SelectPapers(loaded, selected_indices))
          IN  /\ IF loaded = <<>> \/ mode = "list_only"
                 THEN Exit(0) /\ UNCHANGED selected
                 ELSE IF selected_indices = <<>>
                 THEN Exit(IF mode = "select" THEN 1 ELSE 0) /\ UNCHANGED selected
                 ELSE IF papers_with_doi = <<>>
                 THEN Exit(0) /\ UNCHANGED selected
                 ELSE /\ d_pc' = "confirm"
                      /\ selected' = papers_with_doi
                      /\ UNCHANGED exit_code
    /\ UNCHANGED <<files, papers, delay, progress_callback, idx, results, events,
                   progress_calls, fs_log, net_log, confirmed, d_exc>>
    /\ DownloadFrame

\* The answers to "Proceed to download ...? [Y/n]"; "EOF" is EOFError / KeyboardInterrupt.
Answers == {"", "y", "yes", "n", "EOF"}

MainConfirm ==
    /\ d_pc = "confirm"
    /\ \E confirm \in Answers :
          IF confirm = "EOF" \/ (confirm # "" /\ confirm \notin {"y", "yes"})
          THEN Exit(0) /\ UNCHANGED confirmed
          ELSE /\ d_pc' = "init"
               /\ confirmed' = TRUE
               /\ UNCHANGED exit_code
    /\ UNCHANGED <<files, d_entry, papers, delay, progress_callback, idx, results, events,
                   progress_calls, fs_log, net_log, selected, d_exc>>
    /\ DownloadFrame

\* The parameters PDFDownloader.__init__ declares, and the keywords main passes to it.
PDFDownloaderInitParams == {"download_dir", "email", "timeout"}

MainDownloaderKeywords == {"download_dir", "email", "use_elsevier", "use_unpaywall"}

\* downloader = PDFDownloader(...); results = downloader.download_papers(papers_with_doi,
\* delay=args.delay, progress_callback=print_progress). An uncaught exception ends the
\* process with status 1.
MainInitDownloader ==
    /\ d_pc = "init"
    /\ IF CallBinds(MainDownloaderKeywords, PDFDownloaderInitParams)
       THEN /\ \E dl \in Delays : DownloadPapersBody(selected, dl, TRUE)
            /\ UNCHANGED <<exit_code, d_exc>>
       ELSE /\ Exit(1)
            /\ d_exc' = "TypeError"
            /\ UNCHANGED <<papers, delay, progress_callback, idx, results, events,
                           progress_calls, fs_log, net_log>>
    /\ UNCHANGED <<files, d_entry, selected, confirmed>>
    /\ DownloadFrame

DownloadInit ==
    /\ files \in InitialFiles
    /\ DownloadIdle
    /\ FunctionIdle
    /\ SearchIdle
    /\ QueryIdle
    /\ FetchIdle

DownloadNext ==
    \/ CallDownloadPapers
    \/ Attempt
    \/ Progress
    \/ RateLimit
    \/ DownloadPapersReturn
    \/ MainSelect
    \/ MainConfirm
    \/ MainInitDownloader

DownloadSpec == DownloadInit /\ [][DownloadNext]_vars

\* ------------------------------------------------------------------ functions called on their own

\* The download directory before a direct call: empty, holding another paper's
\* file, or holding a file at the target path.
DirectFiles ==
    { <<>>, WriteFile(<<>>, FilePath(<<"b">>), 2000), WriteFile(<<>>, FilePath(<<"a">>), 2000) }

\* A caller calls download_pdf(url, filepath). The functions called on their own
\* keep no state between calls, so a run makes one call.
CallDownloadPdf ==
    /\ p_call = NoCall
    /\ \E fs \in DirectFiles, resp \in DownloadResponses :
          LET filepath == FilePath(<<"a">>)
          IN  /\ p_call' = [fn |-> "download_pdf", fs |-> fs, filepath |-> filepath, resp |-> resp]
              /\ p_ret' = download_pdf(fs, filepath, resp)
    /\ FunctionFrame

\* ------------------------------------------------------------------ download_papers.py parse_selection

\* The longest selection string enumerated.
MaxSelLen == 5

Digits == {"0", "1", "2", "3", "4", "5", "6", "7", "8", "9"}

DigitValue(c) == CHOOSE d \in 0..9 : DigitChars[d + 1] = c

RECURSIVE DigitsValue(_)
DigitsValue(s) ==
    IF s = <<>> THEN 0
    ELSE 10 * DigitsValue(SubSeq(s, 1, Len(s) - 1)) + DigitValue(s[Len(s)])

\* int(s) for a str: an optional sign and decimal digits, else ValueError.
PyInt(s) ==
    LET signed == s # <<>> /\ s[1] \in {"+", "-"}
        body   == IF signed THEN Tail(s) ELSE s
    IN  IF body = <<>> \/ \E i \in 1..Len(body) : body[i] \notin Digits
        THEN [ok |-> FALSE, val |-> 0]
        ELSE [ok |-> TRUE,
              val |-> IF signed /\ s[1] = "-" THEN 0 - DigitsValue(body) ELSE DigitsValue(body)]

\* s.replace(c, "")
RECURSIVE RemoveAll(_, _)
RemoveAll(s, c) ==
    IF s = <<>> THEN <<>>
    ELSE (IF s[1] = c THEN <<>> ELSE <<s[1]>>) \o RemoveAll(Tail(s), c)

HasChar(s, c) == \E i \in 1..Len(s) : s[i] = c

FirstIndex(s, c) == CHOOSE i \in 1..Len(s) : s[i] = c /\ \A j \in 1..(i - 1) : s[j] # c

\* s.split(c)
RECURSIVE Split(_, _)
Split(s, c) ==
    IF ~HasChar(s, c) THEN <<s>>
    ELSE LET k == FirstIndex(s, c)
         IN  <<SubSeq(s, 1, k - 1)>> \o Split(SubSeq(s, k + 1, Len(s)), c)

\* range(a, b)
PyRange_Closed(a, b) == a..b

PyRange(a, b) == a..(b - 1)

\* What one comma-separated part adds to indices; a ValueError of int() is caught
\* and the part skipped.
PartIndices(part, max_index) ==
    IF HasChar(part, "-")
    THEN LET k         == FirstIndex(part, "-")
             start_idx == PyInt(SubSeq(part, 1, k - 1))
             end_idx   == PyInt(SubSeq(part, k + 1, Len(part)))
         IN  IF ~start_idx.ok \/ ~end_idx.ok THEN {}
             ELSE { i - 1 : i \in { j \in 1..max_index :
                                       j \in PyRange(start_idx.val, end_idx.val + 1) } }
    ELSE LET n == PyInt(part)
         IN  IF n.ok /\ 1 <= n.val /\ n.val <= max_index THEN {n.val - 1} ELSE {}

\* parse_selection(selection_str, max_index): no statement outside the two try
\* blocks can raise, so the call returns sorted(indices).
parse_selection(selection_str, max_index) ==
    LET parts == Split(RemoveAll(selection_str, " "), ",")
    IN  SortedSeq(UNION { PartIndices(parts[k], max_index) : k \in 1..Len(parts) })

\* The selection strings and the list lengths of the calls.
SelChars == {"1", "3", ",", "-", " ", "x"}

SpecExample == <<"1", ",", "3", ",", "5", "-", "1", "0">>

SelectionStrings == SeqsUpTo(SelChars, MaxSelLen) \cup {SpecExample}

MaxIndexes == {0, 3, 12}

\* A caller calls parse_selection(selection_str, max_index).
CallParseSelection ==
    /\ p_call = NoCall
    /\ \E str \in SelectionStrings, max_index \in MaxIndexes :
          /\ p_call' = [fn |-> "parse_selection", selection_str |-> str, max_index |-> max_index]
          /\ p_ret' = parse_selection(str, max_index)
    /\ FunctionFrame

\* ------------------------------------------------------------------ PDFDownloader: get_download_stats

\* The longest list of results enumerated.
MaxStatLen == 3

StatPaper == [title |-> TitleA, doi |-> Some(Doi)]

Unknown == <<"unknown">>

\* DownloadResults as download_paper makes them and as the dataclass allows them:
\* a success without a source, a failure without an error.
StatResults ==
    { Success(StatPaper, FilePath(TitleA), Cached),
      Success(StatPaper, FilePath(TitleA), UnpaywallSource([source |-> "publisher"])),
      Success(StatPaper, FilePath(TitleA), Unknown),
      [Success(StatPaper, FilePath(TitleA), Cached) EXCEPT !.source = <<>>],
      Failure(StatPaper, "No DOI available"),
      Failure(StatPaper, "PDF not available via open access"),
      [Failure(StatPaper, "") EXCEPT !.error = <<>>] }

\* r.source or "unknown"
SourceLabel(r) == IF TruthyStr(r.source) THEN r.source[1] ELSE Unknown

\* r.error or "unknown"
ErrorLabel(r) == IF r.error = <<>> \/ r.error[1] = "" THEN "unknown" ELSE r.error[1]

\* [r for r in results if r.success] and [r for r in results if not r.success]
RECURSIVE Filter(_, _)
Filter(rs, wanted) ==
    IF rs = <<>> THEN <<>>
    ELSE (IF rs[1].success = wanted THEN <<rs[1]>> ELSE <<>>) \o Filter(Tail(rs), wanted)

\* d[key] = d.get(key, 0) + 1
Tally_Overwrite(d, key) == [k \in (DOMAIN d) \cup {key} |-> IF k = key THEN 1 ELSE d[k]]

Tally(d, key) ==
    [k \in (DOMAIN d) \cup {key} |->
        IF k = key THEN (IF key \in DOMAIN d THEN d[key] ELSE 0) + 1 ELSE d[k]]

RECURSIVE TallyAll(_, _)
TallyAll(d, keys) == IF keys = <<>> THEN d ELSE TallyAll(Tally(d, keys[1]), Tail(keys))

\* len(successful) / len(results) * 100 if results else 0, as the fraction num/den
SuccessRate(n_successful, n_results) ==
    IF n_results # 0 THEN [num |-> n_successful * 100, den |-> n_results]
    ELSE [num |-> 0, den |-> 1]

get_download_stats(rs) ==
    LET successful == Filter(rs, TRUE)
        failed     == Filter(rs, FALSE)
    IN  [total        |-> Len(rs),
         successful   |-> Len(successful),
         failed       |-> Len(failed),
         success_rate |-> SuccessRate(Len(successful), Len(rs)),
         sources      |-> TallyAll(<<>>, [k \in 1..Len(successful) |-> SourceLabel(successful[k])]),
         errors       |-> TallyAll(<<>>, [k \in 1..Len(failed) |-> ErrorLabel(failed[k])])]

\* A caller calls get_download_stats(results).
CallGetDownloadStats ==
    /\ p_call = NoCall
    /\ \E rs \in SeqsUpTo(StatResults, MaxStatLen) :
          /\ p_call' = [fn |-> "get_download_stats", results |-> rs]
          /\ p_ret' = get_download_stats(rs)
    /\ FunctionFrame

\* ------------------------------------------------------------------ snapshots: save and load

\* The longest list of papers saved.
MaxSnapLen == 2

\* JSON values as json.dump writes them and json.load reads them.
JNull == [t |-> "null"]

JStr(str) == [t |-> "str", v |-> str]

JNum(n) == [t |-> "num", v |-> n]

JArr(items) == [t |-> "arr", v |-> items]

JObj(members) == [t |-> "obj", v |-> members]

\* An Optional[str] of Python as JSON, and back.
JOpt(o) == IF o = <<>> THEN JNull ELSE JStr(o[1])

OptOf(j) == IF j.t = "null" THEN <<>> ELSE Some(j.v)

JStrList(l) == JArr([i \in 1..Len(l) |-> JStr(l[i])])

StrListOf(j) == [i \in 1..Len(j.v) |-> j.v[i].v]

\* The keywords argument of Paper(...): None or a list.
NoneList == [is |-> "none", val |-> <<>>]

ListOf(l) == [is |-> "list", val |-> l]

\* Paper.__post_init__: if self.keywords is None: self.keywords = []
PostInit(keywords) == IF keywords.is = "none" THEN <<>> ELSE keywords.val

\* The Papers saved: with and without doi, keywords and url.
SnapPapers ==
    { [scopus_id |-> "85", title |-> t, abstract |-> "abs", authors |-> <<"A", "B">>,
       publication_name |-> "J", publication_date |-> "2024-01-01", citation_count |-> 7,
       doi |-> d, keywords |-> PostInit(k), url |-> u] :
        t \in {"t1", "t2"}, d \in {<<>>, Some("10.1/x")},
        k \in {NoneList, ListOf(<<"k1", "k2">>)}, u \in {<<>>, Some("http://u")} }

\* p.to_dict() (asdict) as json.dump writes it.
to_dict(paper) ==
    JObj([ scopus_id        |-> JStr(paper.scopus_id),
           title            |-> JStr(paper.title),
           abstract         |-> JStr(paper.abstract),
           authors          |-> JStrList(paper.authors),
           publication_name |-> JStr(paper.publication_name),
           publication_date |-> JStr(paper.publication_date),
           citation_count   |-> JNum(paper.citation_count),
           doi              |-> JOpt(paper.doi),
           keywords         |-> JStrList(paper.keywords),
           url              |-> JOpt(paper.url) ])

\* The text _save_papers writes: json.dump(data, f).
SnapshotJson(ps, q, now) ==
    JObj([ query      |-> JStr(q),
           fetched_at |-> JNum(now),
           count      |-> JNum(Len(ps)),
           papers     |-> JArr([i \in 1..Len(ps) |-> to_dict(ps[i])]) ])

\* d.get(key, default) and d.get(key)
DictGet(d, key, default) == IF key \in DOMAIN d.v THEN d.v[key] ELSE default

RequiredKeys ==
    {"scopus_id", "title", "abstract", "authors", "publication_name", "publication_date",
     "citation_count"}

\* Paper(scopus_id=p["scopus_id"], ..., doi=p.get("doi"), keywords=p.get("keywords", []),
\* url=p.get("url"))
PaperOfDict(p) ==
    LET kw == DictGet(p, "keywords", JArr(<<>>))
    IN  [ scopus_id        |-> p.v["scopus_id"].v,
          title            |-> p.v["title"].v,
          abstract         |-> p.v["abstract"].v,
          authors          |-> StrListOf(p.v["authors"]),
          publication_name |-> p.v["publication_name"].v,
          publication_date |-> p.v["publication_date"].v,
          citation_count   |-> p.v["citation_count"].v,
          doi              |-> OptOf(DictGet(p, "doi", JNull)),
          keywords         |-> PostInit(IF kw.t = "null" THEN NoneList ELSE ListOf(StrListOf(kw))),
          url              |-> OptOf(DictGet(p, "url", JNull)) ]

\* load_papers(filepath) on the text data: p["..."] of an absent key is a KeyError.
load_papers_DoiRequired(data) ==
    LET dicts == DictGet(data, "papers", JArr(<<>>)).v
    IN  IF \E i \in 1..Len(dicts) : ~((RequiredKeys \cup {"doi"}) \subseteq DOMAIN dicts[i].v)
        THEN [exc |-> "KeyError", metadata |-> <<>>, papers |-> <<>>]
        ELSE [exc |-> "None",
              metadata |-> [ query      |-> OptOf(DictGet(data, "query", JNull)),
                             fetched_at |-> OptOf(DictGet(data, "fetched_at", JNull)),
                             count      |-> OptOf(DictGet(data, "count", JNull)) ],
              papers |-> [i \in 1..Len(dicts) |-> PaperOfDict(dicts[i])]]

load_papers(data) ==
    LET dicts == DictGet(data, "papers", JArr(<<>>)).v
    IN  IF \E i \in 1..Len(dicts) : ~(RequiredKeys \subseteq DOMAIN dicts[i].v)
        THEN [exc |-> "KeyError", metadata |-> <<>>, papers |-> <<>>]
        ELSE [exc |-> "None",
              metadata |-> [ query      |-> OptOf(DictGet(data, "query", JNull)),
                             fetched_at |-> OptOf(DictGet(data, "fetched_at", JNull)),
                             count      |-> OptOf(DictGet(data, "count", JNull)) ],
              papers |-> [i \in 1..Len(dicts) |-> PaperOfDict(dicts[i])]]

\* download_papers.py's own loader: the same statements as load_papers.
load_papers_from_json(data) == load_papers(data)

Loaders == {"load_papers", "load_papers_from_json"}

Load(loader, data) ==
    IF loader = "load_papers" THEN load_papers(data) ELSE load_papers_from_json(data)

\* del p[key] for the keys of a set
DropKeys(obj, keys) == JObj([k \in (DOMAIN obj.v) \ keys |-> obj.v[k]])

OptionalKeys == {"doi", "keywords", "url"}

\* A caller saves papers with a query and loads the written snapshot.
CallSaveThenLoad ==
    /\ p_call = NoCall
    /\ \E ps \in SeqsUpTo(SnapPapers, MaxSnapLen) \ {<<>>}, q \in {"q1", "q2"},
          now \in 0..MaxClock, loader \in Loaders :
          /\ p_call' = [fn |-> "save_then_load", papers |-> ps, query |-> q, loader |-> loader]
          /\ p_ret' = Load(loader, SnapshotJson(ps, q, now))
    /\ FunctionFrame

\* A caller loads a snapshot of one record from which some keys are absent.
CallLoadPartial ==
    /\ p_call = NoCall
    /\ \E paper \in SnapPapers, loader \in Loaders,
          absent \in SUBSET (OptionalKeys \cup {"title"}) :
          LET data == JObj([ query  |-> JStr("q1"),
                             count  |-> JNum(1),
                             papers |-> JArr(<<DropKeys(to_dict(paper), absent)>>) ])
          IN  /\ p_call' = [fn |-> "load_partial", paper |-> paper, absent |-> absent,
                            loader |-> loader]
              /\ p_ret' = Load(loader, data)
    /\ FunctionFrame

FunctionInit ==
    /\ SearchIdle
    /\ QueryIdle
    /\ FetchIdle
    /\ DownloadIdle
    /\ FunctionIdle
    /\ files = <<>>

FunctionNext ==
    \/ CallDownloadPdf
    \/ CallParseSelection
    \/ CallGetDownloadStats
    \/ CallSaveThenLoad
    \/ CallLoadPartial

FunctionSpec == FunctionInit /\ [][FunctionNext]_vars

\* ------------------------------------------------------------------ functions: claims

\* C14: for a 2xx answer without a transfer error, download_pdf returns success and
\* leaves the written file in place exactly when (the Content-Type contains pdf or
\* octet-stream, or the body starts with %PDF) and the file has at least 1000
\* bytes; a written file under 1000 bytes is deleted; no other file is touched.
C14_PdfValidation ==
    (p_call.fn = "download_pdf" /\ p_call.resp.status = "ok" /\ ~p_call.resp.breaks) =>
        LET resp     == p_call.resp
            path     == p_call.filepath
            typed    == resp.content_type \notin {"text/html", ""}
            written  == typed \/ resp.magic
            accepted == written /\ resp.size >= 1000
        IN  /\ p_ret.success <=> accepted
            /\ accepted => (path \in DOMAIN p_ret.files /\ p_ret.files[path] = resp.size)
            /\ (written /\ ~accepted) => path \notin DOMAIN p_ret.files
            /\ ~written => p_ret.files = p_call.fs
            /\ \A f \in (DOMAIN p_call.fs) \ {path} :
                  f \in DOMAIN p_ret.files /\ p_ret.files[f] = p_call.fs[f]

\* C14 witness: a body of 1000 bytes starting with %PDF, served as text/html, was
\* accepted and written.
C14_Witness ==
    /\ p_call.fn = "download_pdf"
    /\ p_call.resp.status = "ok" /\ ~p_call.resp.breaks
    /\ p_call.resp.content_type = "text/html"
    /\ p_call.resp.magic
    /\ p_call.resp.size = 1000
    /\ p_call.fs = <<>>
    /\ p_ret.success
    /\ p_ret.files[p_call.filepath] = 1000

\* The number an item of digits names.
RECURSIVE Named(_)
Named(ds) == IF ds = <<>> THEN 0 ELSE DigitValue(ds[Len(ds)]) + 10 * Named(SubSeq(ds, 1, Len(ds) - 1))

IsNumber(ds) == ds # <<>> /\ \A i \in 1..Len(ds) : ds[i] \in Digits

\* The item names i: it is the number i, or a range a-b with a <= i <= b.
ItemNames(item, i) ==
    \/ IsNumber(item) /\ Named(item) = i
    \/ \E d \in 1..Len(item) :
          /\ item[d] = "-"
          /\ IsNumber(SubSeq(item, 1, d - 1))
          /\ IsNumber(SubSeq(item, d + 1, Len(item)))
          /\ Named(SubSeq(item, 1, d - 1)) <= i
          /\ i <= Named(SubSeq(item, d + 1, Len(item)))

\* The items of a selection string: what stands between two commas (or an end of
\* the string) once the blanks are removed.
Items(str) ==
    LET t == RemoveAll(str, " ")
    IN  { SubSeq(t, lo, hi) : <<lo, hi>> \in
            { b \in (1..(Len(t) + 1)) \X (0..Len(t)) :
                 /\ b[1] <= b[2] + 1
                 /\ (b[1] = 1 \/ t[b[1] - 1] = ",")
                 /\ (b[2] = Len(t) \/ t[b[2] + 1] = ",")
                 /\ \A j \in b[1]..b[2] : t[j] # "," } }

\* C16: parse_selection returns a strictly ascending list of 0-based indices, each
\* in 0..max_index-1, whose elements are the i-1 for the i in 1..max_index that an
\* item of the string names (as a number or inside a range a-b); items that are
\* out of range or malformed add nothing.
C16_ParseSelection ==
    p_call.fn = "parse_selection" =>
        LET str == p_call.selection_str
            n   == p_call.max_index
        IN  /\ \A k \in 1..(Len(p_ret) - 1) : p_ret[k] < p_ret[k + 1]
            /\ \A k \in 1..Len(p_ret) : 0 <= p_ret[k] /\ p_ret[k] <= n - 1
            /\ { p_ret[k] : k \in 1..Len(p_ret) }
                 = { i - 1 : i \in { j \in 1..n : \E item \in Items(str) : ItemNames(item, j) } }

\* C16 witness: "1,3,5-10" over max_index = 12.
C16_Witness ==
    /\ p_call.fn = "parse_selection"
    /\ p_call.selection_str = SpecExample
    /\ p_call.max_index = 12
    /\ p_ret = <<0, 2, 4, 5, 6, 7, 8, 9>>

RECURSIVE SumOf(_)
SumOf(hist) ==
    IF DOMAIN hist = {} THEN 0
    ELSE LET k == CHOOSE x \in DOMAIN hist : TRUE
         IN  hist[k] + SumOf([x \in (DOMAIN hist) \ {k} |-> hist[x]])

\* total = successful + failed = len(results); the histograms sum to successful and
\* to failed; success_rate = 100 * successful / total, 0 for the empty list.
StatsTotals(rs, st) ==
    /\ st.total = Len(rs)
    /\ st.total = st.successful + st.failed
    /\ st.successful = Cardinality({k \in 1..Len(rs) : rs[k].success})
    /\ SumOf(st.sources) = st.successful
    /\ SumOf(st.errors) = st.failed
    /\ st.success_rate.den # 0
    /\ st.success_rate.num * st.total = 100 * st.successful * st.success_rate.den
    /\ rs = <<>> => st.success_rate.num = 0

\* C17 as stated: with the totals, the entry of every source is the number of
\* successful results with that source, and the entry of every error the number of
\* failed results with that error.
C17_Original ==
    p_call.fn = "get_download_stats" =>
        LET rs == p_call.results
        IN  /\ StatsTotals(rs, p_ret)
            /\ \A src \in DOMAIN p_ret.sources :
                  p_ret.sources[src]
                    = Cardinality({k \in 1..Len(rs) : rs[k].success /\ rs[k].source = Some(src)})
            /\ \A err \in DOMAIN p_ret.errors :
                  p_ret.errors[err]
                    = Cardinality({k \in 1..Len(rs) : ~rs[k].success /\ rs[k].error = Some(err)})

\* The label a result is counted under: its source (its error), or "unknown" when
\* it has none.
LabelOfSource(r) == IF r.source = <<>> \/ r.source = Some(<<>>) THEN <<"unknown">> ELSE r.source[1]

LabelOfError(r) == IF r.error = <<>> \/ r.error = Some("") THEN "unknown" ELSE r.error[1]

\* C17 (amended): with the totals, the sources histogram has exactly the labels of
\* the successful results and the errors histogram exactly the labels of the
\* failed results, each with the number of results counted under it, where a result
\* without source (without error) is counted under "unknown".
C17_Stats ==
    p_call.fn = "get_download_stats" =>
        LET rs == p_call.results
            ok == {k \in 1..Len(rs) : rs[k].success}
            ko == {k \in 1..Len(rs) : ~rs[k].success}
        IN  /\ StatsTotals(rs, p_ret)
            /\ DOMAIN p_ret.sources = { LabelOfSource(rs[k]) : k \in ok }
            /\ \A src \in DOMAIN p_ret.sources :
                  p_ret.sources[src] = Cardinality({k \in ok : LabelOfSource(rs[k]) = src})
            /\ DOMAIN p_ret.errors = { LabelOfError(rs[k]) : k \in ko }
            /\ \A err \in DOMAIN p_ret.errors :
                  p_ret.errors[err] = Cardinality({k \in ko : LabelOfError(rs[k]) = err})

\* C17 witness: two successes of one source, one success without a source, and the
\* stats count them under that source and under "unknown".
C17_Witness ==
    /\ p_call.fn = "get_download_stats"
    /\ Len(p_call.results) = 3
    /\ p_ret.successful = 3
    /\ Cached \in DOMAIN p_ret.sources /\ p_ret.sources[Cached] = 2
    /\ Unknown \in DOMAIN p_ret.sources /\ p_ret.sources[Unknown] = 1
    /\ \E k \in 1..3 : p_call.results[k].source = <<>>

\* C18: loading a snapshot just saved returns metadata with the saved query and
\* count = the number of papers, and the saved papers field for field in the same
\* order; loading a record without doi, keywords or url gives doi = None,
\* keywords = [] and url = None for the absent ones and does not fail.
C18_SaveLoadRoundTrip ==
    /\ p_call.fn = "save_then_load" =>
          /\ p_ret.exc = "None"
          /\ p_ret.metadata.query = Some(p_call.query)
          /\ p_ret.metadata.count = Some(Len(p_call.papers))
          /\ Len(p_ret.papers) = Len(p_call.papers)
          /\ \A i \in 1..Len(p_call.papers) :
                \A field \in DOMAIN p_call.papers[i] :
                    p_ret.papers[i][field] = p_call.papers[i][field]
    /\ (p_call.fn = "load_partial" /\ p_call.absent \subseteq {"doi", "keywords", "url"}) =>
          /\ p_ret.exc = "None"
          /\ Len(p_ret.papers) = 1
          /\ p_ret.papers[1].doi = IF "doi" \in p_call.absent THEN <<>> ELSE p_call.paper.doi
          /\ p_ret.papers[1].keywords
               = IF "keywords" \in p_call.absent THEN <<>> ELSE p_call.paper.keywords
          /\ p_ret.papers[1].url = IF "url" \in p_call.absent THEN <<>> ELSE p_call.paper.url
          /\ p_ret.papers[1].title = p_call.paper.title

\* C18 witness: a record that had doi, keywords and url was loaded without the
\* three keys.
C18_Witness ==
    /\ p_call.fn = "load_partial"
    /\ p_call.absent = {"doi", "keywords", "url"}
    /\ p_call.paper.doi # <<>> /\ p_call.paper.keywords # <<>> /\ p_call.paper.url # <<>>
    /\ p_ret.exc = "None"
    /\ p_ret.papers[1].doi = <<>> /\ p_ret.papers[1].keywords = <<>> /\ p_ret.papers[1].url = <<>>

\* ------------------------------------------------------------------ PDFDownloader: claims

\* C5: once the user has confirmed a non-empty set of DOI-bearing papers, the batch
\* is run over exactly those papers, and the exit status is non-zero if a download
\* failed and zero if all succeeded.
C5_ExitStatus ==
    (d_entry = "main" /\ confirmed /\ d_pc = "exited") =>
        /\ papers = selected
        /\ Len(results) = Len(selected)
        /\ (exit_code[1] # 0) <=> AnyFailed(results)

TargetPath(paper) == FilePath(sanitize_filename(paper.title, MaxFilenameLength))

\* The files as attempt k left them.
FilesAfter(k) == IF k < Len(fs_log) THEN fs_log[k + 1] ELSE files

\* C6: download_paper on a paper with a DOI whose target file already exists
\* returns success with source "cached" and that path, makes no Unpaywall lookup
\* and no download request and leaves the files as they were; a call that follows
\* a successful call for the same title is "cached".
C6_CachedShortCircuit ==
    \A k \in 1..Len(results) :
        /\ (TruthyStr(papers[k].doi) /\ FileExists(fs_log[k], TargetPath(papers[k]))) =>
              /\ results[k] = Success(papers[k], TargetPath(papers[k]), Cached)
              /\ net_log[k] = <<>>
              /\ FilesAfter(k) = fs_log[k]
        /\ \A j \in 1..(k - 1) :
              (results[j].success /\ papers[j].title = papers[k].title
                 /\ TruthyStr(papers[k].doi)) => results[k].source = Some(Cached)

\* C6 witness: a download from Unpaywall, then a cache hit for the same title.
C6_Witness ==
    /\ Len(results) = 2
    /\ papers[1].title = papers[2].title
    /\ results[1].success /\ results[1].source # Some(Cached)
    /\ net_log[1] = <<"unpaywall", "pdf">>
    /\ results[2].source = Some(Cached)
    /\ net_log[2] = <<>>

NoDoiError == "No DOI available"

NotAvailableError == "PDF not available via open access"

\* C15: download_paper on a paper without a DOI (None or empty) returns the failure
\* "No DOI available", an error no lookup or download failure carries, makes no
\* network request, does not look at the cache (an existing target file does not
\* make it "cached") and leaves the files as they were.
C15_NoDoiFailsAtOnce ==
    \A k \in 1..Len(results) :
        /\ (papers[k].doi = <<>> \/ papers[k].doi = Some(<<>>)) =>
              /\ results[k] = Failure(papers[k], NoDoiError)
              /\ net_log[k] = <<>>
              /\ FilesAfter(k) = fs_log[k]
        /\ (papers[k].doi # <<>> /\ papers[k].doi # Some(<<>>) /\ ~results[k].success) =>
              results[k].error = Some(NotAvailableError)
        /\ NoDoiError # NotAvailableError

\* C15 witness: a paper without a DOI whose target file exists has failed with
\* "No DOI available".
C15_Witness ==
    /\ Len(results) >= 1
    /\ papers[1].doi = <<>>
    /\ FileExists(fs_log[1], TargetPath(papers[1]))
    /\ results[1].error = Some(NoDoiError)
    /\ ~results[1].success

\* download_paper reached download_pdf in attempt k: both requests were made.
DownloadPdfCalled(k) == net_log[k] = <<"unpaywall", "pdf">>

\* What a failing download_pdf does to the files, by cause: a non-PDF type without
\* the %PDF signature returns before any file is opened; every other failure has
\* no file at the path when it returns.
FailureLeavesNoFile(fs, path, resp) ==
    LET got == download_pdf(fs, path, resp)
    IN  (~FileExists(fs, path) /\ ~got.success) =>
            /\ ~FileExists(got.files, path)
            /\ (resp.status = "ok" /\ resp.content_type \in {"text/html", ""} /\ ~resp.magic)
                  => got.files = fs

\* C21: when download_pdf fails for a path that held no file, no file is at the
\* path afterwards (nothing is created for a non-PDF type without %PDF, an
\* undersized file and a partially written file are deleted); so a failed
\* download_paper is not followed by a "cached" result when the same paper is
\* tried again.
C21_FailureLeavesNoFile ==
    /\ \A k \in 1..Len(results) :
          ~results[k].success =>
              /\ (DownloadPdfCalled(k) /\ ~FileExists(fs_log[k], TargetPath(papers[k])))
                    => ~FileExists(FilesAfter(k), TargetPath(papers[k]))
              /\ \A j \in (k + 1)..Len(results) :
                    (papers[j] = papers[k] /\ \A i \in k..(j - 1) : ~results[i].success)
                        => results[j].source # Some(Cached)
    /\ (d_pc = "loop" /\ idx < Len(papers)) =>
          \A dl \in DownloadResponses :
              FailureLeavesNoFile(files, TargetPath(papers[idx + 1]), dl)

\* C21 witness: the download of a paper failed inside download_pdf with no file at
\* the path before, and the second attempt for the same paper went to the network
\* again and succeeded.
C21_Witness ==
    /\ Len(results) = 2
    /\ papers[1] = papers[2]
    /\ ~FileExists(fs_log[1], TargetPath(papers[1]))
    /\ DownloadPdfCalled(1)
    /\ ~results[1].success
    /\ DownloadPdfCalled(2)
    /\ results[2].success /\ results[2].source # Some(Cached)

\* The host types a source can name: the location's host_type, or "unknown".
SourceHosts == {"publisher", "repository", "unknown"}

\* C22: every DownloadResult of download_paper is a success with the path of a file
\* that exists, the source "cached" or "unpaywall:<host_type>" and no error, or a
\* failure with no path, no source and one of the two error texts.
C22_ResultShapes ==
    \A k \in 1..Len(results) :
        LET r == results[k]
        IN  /\ r.paper = papers[k]
            /\ \/ /\ r.success
                  /\ r.filepath = Some(TargetPath(papers[k]))
                  /\ FileExists(FilesAfter(k), r.filepath[1])
                  /\ r.source \in {Some(Cached)} \cup {Some(<<"unpaywall:", h>>) : h \in SourceHosts}
                  /\ r.source[1] # <<>>
                  /\ r.error = <<>>
               \/ /\ ~r.success
                  /\ r.filepath = <<>>
                  /\ r.source = <<>>
                  /\ r.error \in {Some(NoDoiError), Some(NotAvailableError)}

\* C22 witness: a batch gave a success from Unpaywall whose location names no
\* host type, and a failure after a lookup.
C22_Witness ==
    /\ Len(results) = 2
    /\ results[1].success /\ results[1].source = Some(<<"unpaywall:", "unknown">>)
    /\ FileExists(fs_log[2], results[1].filepath[1])
    /\ ~results[2].success /\ results[2].error = Some(NotAvailableError)
    /\ net_log[2] # <<>>

\* C7: download_papers returns one result per input paper, in input order, with
\* results[i].paper = papers[i]; no outcome of one paper (a lookup failure
\* included) ends the batch before the papers after it are attempted.
C7_CompleteResults ==
    /\ d_pc # "raised"
    /\ Len(results) <= Len(papers)
    /\ \A k \in 1..Len(results) : results[k].paper = papers[k]
    /\ d_pc = "done" =>
          /\ Len(results) = Len(papers)
          /\ \A k \in 1..Len(papers) : \E e \in 1..Len(events) : events[e] = Event("attempt", k, 0)

\* The events of the first k passes of the loop.
RECURSIVE ExpectedEvents(_)
ExpectedEvents(k) ==
    IF k = 0 THEN <<>>
    ELSE ExpectedEvents(k - 1)
         \o <<Event("attempt", k, 0)>>
         \o (IF progress_callback THEN <<Event("progress", k, Len(papers))>> ELSE <<>>)
         \o (IF results[k].source # Some(Cached) /\ k # Len(papers)
             THEN <<Event("sleep", k, delay)>> ELSE <<>>)

\* C8: the progress callback is called once per paper, after the attempt and before
\* any sleep, with current = 1..n in order; a sleep of delay seconds follows the
\* attempt for a paper exactly when its result is not "cached" and it is not the last.
C8_ProgressThenSleep ==
    LET attempt  == <<Event("attempt", idx + 1, 0)>>
        progress == IF progress_callback
                    THEN <<Event("progress", idx + 1, Len(papers))>> ELSE <<>>
        called   == IF d_pc = "ratelimit" THEN idx + 1 ELSE idx
    IN  /\ d_pc \in {"loop", "done"} => events = ExpectedEvents(idx)
        /\ d_pc \in {"progress", "raised"} => events = ExpectedEvents(idx) \o attempt
        /\ d_pc = "ratelimit" => events = ExpectedEvents(idx) \o attempt \o progress
        /\ d_pc = "done" => idx = Len(papers)
        /\ (progress_callback /\ d_pc \in {"loop", "progress", "ratelimit", "raised", "done"}) =>
              progress_calls = [k \in 1..called |-> <<k, Len(papers), papers[k], results[k]>>]

\* C8 witness: a batch of two with a callback: a sleep after a download, none after
\* the last paper.
C8_Witness ==
    /\ d_pc = "done"
    /\ progress_callback
    /\ Len(papers) = 2
    /\ results[1].source # Some(Cached)
    /\ results[2].source # Some(Cached)
    /\ events = <<Event("attempt", 1, 0), Event("progress", 1, 2), Event("sleep", 1, delay),
                  Event("attempt", 2, 0), Event("progress", 2, 2)>>

\* ------------------------------------------------------------------ search_all: claims

SearchAllEnded == s_pc \in {"returned", "raised"}

\* The provider's pages are non-empty up to page FirstEmpty - 1 and page FirstEmpty
\* is empty (the pages after the script's end are empty).
IsEmptyPage(i) == PageOf(i).kind = "ok" /\ PageOf(i).n = 0

IsFullPage(i) == PageOf(i).kind = "ok" /\ PageOf(i).n > 0

NonEmptyThenEmpty ==
    \E i \in 1..(Len(provider) + 1) : IsEmptyPage(i) /\ \A j \in 1..(i - 1) : IsFullPage(j)

FirstEmpty ==
    CHOOSE i \in 1..(Len(provider) + 1) :
        IsEmptyPage(i) /\ \A j \in 1..(i - 1) : ~IsEmptyPage(j)

RECURSIVE EntriesUpTo(_)
EntriesUpTo(k) == IF k = 0 THEN <<>> ELSE EntriesUpTo(k - 1) \o Entries(k, PageOf(k).n)

\* The empty page comes before total_count entries have been accumulated.
EmptyBeforeTotalCount ==
    /\ entry = "search_all"
    /\ NonEmptyThenEmpty
    /\ Len(EntriesUpTo(FirstEmpty - 1)) < total_count

\* Every non-empty page reports an integer total above the entries received so far.
TotalsAhead ==
    \A j \in 1..(FirstEmpty - 1) :
        PageOf(j).total.is = "int" /\ PageOf(j).total.val > Len(EntriesUpTo(j))

StopsAtEmptyPage ==
    /\ Len(requests) <= FirstEmpty
    /\ s_pc = "returned" =>
          /\ ret = EntriesUpTo(FirstEmpty - 1)
          /\ Len(requests) = FirstEmpty
          /\ served = FirstEmpty

\* C1 (as stated): whenever the provider serves non-empty pages and then an empty
\* page before total_count entries are accumulated, search_all returns exactly the
\* entries of the pages before the empty one, and the request answered by the
\* empty page is the last request issued.
C1_Original == EmptyBeforeTotalCount => StopsAtEmptyPage

\* C1 (amended): the same, for a provider whose every non-empty page reports an
\* integer opensearch:totalResults greater than the entries received so far.
C1_StopsAtEmptyPage == (EmptyBeforeTotalCount /\ TotalsAhead) => StopsAtEmptyPage

\* C1 witness: three non-empty pages, then the empty one, 60 entries returned.
C1_Witness ==
    /\ EmptyBeforeTotalCount /\ TotalsAhead
    /\ s_pc = "returned"
    /\ FirstEmpty = 4
    /\ Len(ret) = 60
    /\ total_count = 100

\* C2: search_all ends, whatever the pages and the reported totals: it issues at
\* most total_count requests, and every call returns or raises.  (A direct call
\* of search has no total_count; it issues its one request and ends.)
C2_Terminates ==
    /\ [](entry # "search" => Len(requests) <= Max(total_count, 0))
    /\ <>SearchAllEnded

\* C2 witness: a call that ended although every page reported more to come.
C2_Witness ==
    /\ s_pc = "returned"
    /\ Len(pagelog) >= 3
    /\ \A i \in 1..Len(pagelog) : pagelog[i].n > 0 /\ pagelog[i].total = Num(1000)

\* C3: the returned list has at most total_count entries and is a prefix of the
\* concatenation of the pages received, in request order.
C3_BoundedPrefix ==
    (s_pc = "returned" /\ entry = "search_all") =>
        /\ Len(ret) <= total_count
        /\ IsPrefix(ret, received)

\* C3 witness: the last page overshot total_count and was truncated.
C3_Witness ==
    /\ s_pc = "returned" /\ entry = "search_all"
    /\ total_count > 0
    /\ Len(received) > total_count
    /\ Len(ret) = total_count

\* C20: every request of search_all carries start = the number of entries received
\* on the earlier pages of the call (0 for the first) and count = min(25,
\* total_count - entries accumulated so far), between 1 and 25; no request of
\* search carries a count above 25, whatever count the caller passed.
C20_RequestParams ==
    /\ \A k \in 1..Len(requests) : requests[k].count <= 25
    /\ entry = "search_all" =>
          \A k \in 1..Len(requests) :
              LET before == SumSizes(SubSeq(pagelog, 1, k - 1))
              IN  /\ requests[k].start = before
                  /\ requests[k].count = Min(25, total_count - before)
                  /\ 1 <= requests[k].count

\* C20 witness: search_all(q, 26) after a full first page asks for one entry from
\* start 25.
C20_Witness ==
    /\ entry = "search_all"
    /\ total_count = 26
    /\ Len(requests) = 2
    /\ pagelog # <<>> /\ pagelog[1].n = 25
    /\ requests[1].start = 0 /\ requests[1].count = 25
    /\ requests[2].start = 25 /\ requests[2].count = 1

====
